---- MODULE Spec2Model ----
(***************************************************************************)
(* go-bayesopt: the round controller (Optimizer) of bayesopt.go with the   *)
(* observation set of gp/gp.go.                                            *)
(*                                                                         *)
(* Real numbers are small integers.  The numerical work of a model-driven  *)
(* round (gonum's Global and Local runs over the GP posterior) is a choice *)
(* over its outcomes: which error it returns, whether the acquisition      *)
(* reported an error, and which point and value it found.                  *)
(***************************************************************************)
EXTENDS Integers, Sequences, FiniteSets, Bags, TLC

\* ------------------------------------------------------------------ bounds

MaxRounds == 3
MaxRandomRounds == 3
\* The number of gradient-descent restarts of one model-driven round
\* (NumGradPoints is 256 in bayesopt.go; every restart runs the same code).
GradPoints == 1
\* The user objective returns a value in 0..MaxY.
MaxY == 1
\* The largest value of SampleTries.
MaxTries == 2
\* Min and Max of a sampled Param lie in 0..MaxBound.
MaxBound == 2
\* The raw normal draws lie in -MaxZ..MaxZ, the raw exponential ones in 0..2*MaxZ.
MaxZ == 2
\* rand.Float64() returns k/Den for a k in 0..Den-1.
Den == 2
\* The iterations a RejectionParam.Sample call is followed for.
MaxIter == 3

\* ------------------------------------------------------------------ values

Drivers == {"d1", "d2"}
Ext == "ext"
Callers == Drivers \cup {Ext}
Free == "free"
Orphan == "orphan"

\* An error is its chain of messages, outermost first; nil is the empty chain.
NoErr == <<>>
\* errors.Wrap / errors.Wrapf: nil stays nil.
Wrap(err, msg) == IF err = NoErr THEN NoErr ELSE <<msg>> \o err
\* errors.New
NewErr(msg) == <<msg>>
\* errors.Cause, iterated to the root as isFatalErr does.
Cause(err) == <<err[Len(err)]>>

ErrLinesearcherFailure == <<"linesearch: failed to converge">>
ErrNoProgress == <<"linesearch: no change in location after Linesearcher step">>
ErrFunc == <<"optimize: function error">>
ErrOther == <<"optimize: other">>
\* What gp.Estimate / gp.Gradient can report to the acquisition.
ErrGP == <<"failed to run compute", "compute", "failed to factorize">>

ErrAlreadyRunning == NewErr("optimizer is already running")
ErrStopSignal == NewErr("optimizer got stop signal")

\* Mutant of isFatalErr: an optimize.ErrFunc is fatal.
isFatalErrFunc(err) ==
    IF err = NoErr THEN FALSE
    ELSE Cause(err) \notin {ErrLinesearcherFailure, ErrNoProgress}

isFatalErr(err) ==
    IF err = NoErr THEN FALSE
    ELSE LET root == Cause(err) IN
         IF root = ErrFunc THEN FALSE
         ELSE IF root \in {ErrLinesearcherFailure, ErrNoProgress} THEN FALSE
         ELSE TRUE

\* The parameters the optimizer is created with (UniformParam values).
ParamA == [Name |-> "a", Min |-> 0, Max |-> 1]
ParamB == [Name |-> "b", Min |-> 2, Max |-> 2]
ParamC == [Name |-> "c", Min |-> 3, Max |-> 3]
\* Two parameter lists: one with a choice of sample, one with fixed samples.
ParamList == <<ParamA, ParamB>>
FixedParamList == <<ParamB, ParamC>>

GetMin(p) == p.Min
GetMax(p) == p.Max
\* UniformParam.Sample: a value of [Min, Max].
SampleSet(p) == GetMin(p)..GetMax(p)

Range(s) == {s[i] : i \in 1..Len(s)}

\* sampleParams: one draw per parameter, in the order of the list.
sampleParams(ps) ==
    { x \in [1..Len(ps) -> UNION {SampleSet(ps[i]) : i \in 1..Len(ps)}] :
        \A i \in 1..Len(ps) : x[i] \in SampleSet(ps[i]) }

\* The map keyed by Param of a vector: a later duplicate key overwrites.
MapOf(ps, xa) ==
    [p \in Range(ps) |->
        LET I == {i \in 1..Len(ps) : ps[i] = p /\ i <= Len(xa)}
        IN xa[CHOOSE i \in I : \A j \in I : j <= i]]

\* sampleParamsMap
sampleParamsMap(ps) == {MapOf(ps, xa) : xa \in sampleParams(ps)}

\* The x of "no next point".
NilMap == <<>>
NoPoint == [nil |-> TRUE, x |-> NilMap, parallel |-> FALSE, err |-> NoErr]
Point(m, par) == [nil |-> FALSE, x |-> m, parallel |-> par, err |-> NoErr]
NoResult(err) == [nil |-> TRUE, x |-> NilMap, y |-> 0, err |-> err]

\* floats.MinIdx / floats.MaxIdx: the first index of the extreme value.
RECURSIVE MinIdxFrom(_, _, _)
MinIdxFrom(s, i, best) ==
    IF i > Len(s) THEN best
    ELSE MinIdxFrom(s, i + 1, IF s[i] < s[best] THEN i ELSE best)
\* Mutant of MinIdx: the last index of the minimum.
RECURSIVE MinIdxLastFrom(_, _, _)
MinIdxLastFrom(s, i, best) ==
    IF i > Len(s) THEN best
    ELSE MinIdxLastFrom(s, i + 1, IF s[i] <= s[best] THEN i ELSE best)
MinIdxLast(s) == MinIdxLastFrom(s, 1, 1)

MinIdx(s) == MinIdxFrom(s, 1, 1)

RECURSIVE MaxIdxFrom(_, _, _)
MaxIdxFrom(s, i, best) ==
    IF i > Len(s) THEN best
    ELSE MaxIdxFrom(s, i + 1, IF s[i] > s[best] THEN i ELSE best)
MaxIdx(s) == MaxIdxFrom(s, 1, 1)

\* ------------------------------------------------------------------ state

VARIABLES
    \* Optimizer.mu: the fields guarded by the mutex
    round, randomRounds, rounds, minimize, params, running, explorationErr,
    \* the holder of Optimizer.mu (Free when unlocked)
    mu,
    \* gp.GP: the observation set and the dirty flag
    inputs, outputs, dirty,
    \* gp.GP: the fitted state, each value written as the data it was computed from
    n, alpha, l, mean, stddev,
    \* what the last Estimate or Gradient call on the GP returned, and whether it
    \* called compute
    gret,
    \* the package variable SampleTries
    SampleTries,
    \* the last truncateSample or Sample call: its Param, the draws f delivers,
    \* the value returned and the number of calls of f
    sret,
    \* a RejectionParam.Sample call: its position, the iterations so far, the last
    \* draw x, the last rand.Float64() and the value returned
    rej,
    \* BoundsMethod.Run: per channel (op, operation, result, res) the tasks sent on
    \* it so far and whether it is closed
    ch,
    \* per relay goroutine: the task it received and has not sent on yet
    held,
    \* the tasks slice handed to Run, as passed and as it is now, and whether Run
    \* was called
    run,
    \* the last evaluation of the acquisition: the GP's estimate, Kappa, minimize,
    \* what UCB.Estimate returned and what the function f of Next returned
    acq,
    \* the last evaluation of the kernel: its arguments and what it returned
    kern,
    \* what the last RawData call returned, as its caller holds it now, the memory
    \* it shares with the GP, and the writes its caller made to it
    raw,
    \* per caller: the position in Optimize (drivers) or in Next (Ext)
    pc,
    \* per caller: what its last Next call returned (x, parallel, err)
    nret,
    \* per driver: what its last Optimize call returned (x, y, err)
    res,
    \* per driver: the WaitGroup counter of its current Optimize invocation
    wg,
    \* the goroutines spawned for parallel rounds: a bag of [x, wg]
    tasks,
    \* the locals of the Next call that holds the mutex over a model-driven round
    nx,
    \* per driver: Stop was called since this invocation marked running
    stopped,
    \* the user objective f, as the set of values it can return
    objective,
    \* history: the number of points Next has returned so far
    issued

vars == <<round, randomRounds, rounds, minimize, params, running, explorationErr,
          mu, inputs, outputs, dirty, pc, nret, res, wg, tasks, nx, stopped, objective,
          issued, n, alpha, l, mean, stddev, gret, SampleTries, sret, rej, ch, held, run,
          acq, kern, raw>>

config == <<randomRounds, rounds, minimize, params, objective>>
\* The fields compute assigns.
fit == <<n, alpha, l, mean, stddev>>
gpvars == <<inputs, outputs, dirty, fit>>
\* The Optimizer's fields and its callers' state.
ctl == <<round, config, running, explorationErr, mu, pc, nret, res, wg, tasks, nx, stopped,
         issued>>
\* The state of the units that are also exercised on their own.
sampling == <<SampleTries, sret, rej>>
relay == <<ch, held, run>>
units == <<gret, sampling, relay, acq, kern, raw>>

\* A nil pointer, and the zero value of a float field.
Nil == <<"nil">>
Zero == <<"zero">>
\* The fitted state a call that returned no result used: none.
NoFit == [n |-> 0, alpha |-> Nil, l |-> Nil, mean |-> Zero, stddev |-> Zero]
\* A float64 that is NaN, one of the value v, and what a query returns with an error.
NaN == <<"NaN">>
Num(v) == <<"num", v>>
NoValue == [mean |-> Num(0), sd |-> Num(0)]
\* No query was made yet.
NoQuery == [op |-> "none", status |-> "none", err |-> NoErr, used |-> NoFit, x |-> <<>>,
            value |-> NoValue, refit |-> FALSE]

\* The Param variants: Min and Max, and Mean and StdDev or Rate where they apply.
UniformParam(mn, mx) ==
    [kind |-> "uniform", Min |-> mn, Max |-> mx, Mean |-> 0, StdDev |-> 0, Rate |-> 0]
NormalParam(mn, mx, m, sd) ==
    [kind |-> "normal", Min |-> mn, Max |-> mx, Mean |-> m, StdDev |-> sd, Rate |-> 0]
ExponentialParam(mn, mx, rate) ==
    [kind |-> "exponential", Min |-> mn, Max |-> mx, Mean |-> 0, StdDev |-> 0, Rate |-> rate]

\* No sampling call was made yet.
NoSample == [op |-> "none", p |-> UniformParam(0, 0), f |-> <<>>, value |-> 0, calls |-> 0]
NoRejection ==
    [pc |-> "idle", Param |-> UniformParam(0, 0), F |-> <<0, 0>>, iter |-> 0, x |-> 0,
     u |-> 0, ret |-> 0]

\* An optimize.Task: its ID and its *Location (nil, or the vector X and the value F).
NoLocation == [nil |-> TRUE, X |-> <<>>, F |-> 0]
Location(X) == [nil |-> FALSE, X |-> X, F |-> 0]
NoTask == [ID |-> 0, Location |-> NoLocation]
\* The channels of BoundsMethod.Run and its two relay goroutines.
Channels == {"op", "operation", "result", "res"}
Relays == {"request", "response"}
\* No acquisition was evaluated yet.
NoAcq ==
    [called |-> FALSE, minimize |-> FALSE, Kappa |-> 0,
     est |-> [mean |-> 0, sd |-> 0, err |-> NoErr],
     ucb |-> [v |-> 0, err |-> NoErr], f |-> 0, fErr |-> NoErr]

\* No kernel evaluation was made yet.
NoKern == [status |-> "none", a |-> <<>>, b |-> <<>>, v |-> 0]

\* RawData was not called yet.
NoRaw == [called |-> FALSE, inputs |-> <<>>, outputs |-> <<>>, shared |-> {}, writes |-> 0]

\* No unit but u is exercised on its own.
Idle(u) ==
    /\ u # "gp" => gret = NoQuery
    /\ u # "sample" => (SampleTries = MaxTries /\ sret = NoSample /\ rej = NoRejection)
    /\ u # "relay" =>
         /\ ch = [c \in Channels |-> [sent |-> <<>>, closed |-> FALSE]]
         /\ held = [r \in Relays |-> NoTask]
         /\ run = [started |-> FALSE, passed |-> <<>>, tasks |-> <<>>]
    /\ u # "ucb" => acq = NoAcq
    /\ u # "cov" => kern = NoKern
    /\ u # "raw" => raw = NoRaw

\* gp.New: no observations, a zero fitted state.
NewGP ==
    /\ inputs = <<>>
    /\ outputs = <<>>
    /\ dirty = FALSE
    /\ n = 0
    /\ alpha = Nil
    /\ l = Nil
    /\ mean = Zero
    /\ stddev = Zero

\* fErr, minX and the loop counter i; fatal is the wrapped error of the last local
\* run of the round that failed fatally (history).  After a return on an error
\* of optimize.Global, fErr is what the slot held at that return (history).
\* ignored is the last error of a local run of the round that was not fatal
\* (history).
NoNx == [fErr |-> NoErr, minX |-> <<>>, i |-> 0, fatal |-> NoErr, ignored |-> NoErr]

\* New: the state after construction, for every choice of the options, with the
\* parameter list ps and an objective that returns values of ys.
New(ps, ys) ==
    /\ round = 0
    /\ rounds \in 0..MaxRounds
    /\ randomRounds \in 0..MaxRandomRounds
    /\ minimize \in BOOLEAN
    /\ params = ps
    /\ objective = ys
    /\ running = FALSE
    /\ explorationErr = NoErr
    /\ mu = Free
    /\ NewGP
    /\ pc = [c \in Callers |-> "idle"]
    /\ nret = [c \in Callers |-> NoPoint]
    /\ res = [d \in Drivers |-> NoResult(NoErr)]
    /\ wg = [d \in Drivers |-> 0]
    /\ tasks = EmptyBag
    /\ nx = NoNx
    /\ stopped = [d \in Drivers |-> FALSE]
    /\ issued = 0

\* The concurrency specifications: every sample and every objective value is fixed.
Init == New(FixedParamList, {0}) /\ Idle("optimizer")
\* The single run: samples and objective values vary.
InitSingle == New(ParamList, 0..MaxY) /\ Idle("optimizer")

\* ------------------------------------------------------------------ helpers


Active == {"check", "next", "global", "local", "dispatch", "wait", "eval", "clear", "extract"}
\* A panic in any goroutine ends the process.
Alive == \A c \in Callers : pc[c] # "panic"

\* Mutant of Running: the stop signal is never seen.
RunningAlways == TRUE

\* Optimizer.Running / Rounds / ExplorationErr: reads under the mutex.
Running == running
Rounds == round
ExplorationErr == explorationErr

\* The position of a caller after its Next call returned.
AfterNext(c) == IF c \in Drivers THEN "dispatch" ELSE "got"

\* Mutant of LogVector: the values in the reverse order of the parameter list.
LogVectorReversed(x) ==
    [i \in 1..Len(params) |->
        LET p == params[Len(params) + 1 - i] IN IF p \in DOMAIN x THEN x[p] ELSE 0]

\* Optimizer.Log's vector: x[p] for each p of the parameter list (a missing key reads 0).
LogVector(x) ==
    [i \in 1..Len(params) |-> IF params[i] \in DOMAIN x THEN x[params[i]] ELSE 0]

\* gp.Add, called by Optimizer.Log under the mutex.
Add(xa, y) ==
    /\ dirty' = TRUE
    /\ inputs' = Append(inputs, xa)
    /\ outputs' = Append(outputs, y)
    /\ UNCHANGED fit

\* The tasks of an invocation that has returned: nobody waits for them any more.
Orphaned(B, d) ==
    LET relabel(t) == IF t.wg = d THEN [t EXCEPT !.wg = Orphan] ELSE t
        S == {relabel(t) : t \in BagToSet(B)}
    IN [s \in S |->
          LET T == {t \in BagToSet(B) : relabel(t) = s}
              one == CHOOSE t \in T : TRUE
          IN IF Cardinality(T) = 1 THEN B[one]
             ELSE B[one] + B[CHOOSE t \in T : t # one]]

\* A return of Optimize: the invocation's WaitGroup goes out of scope.
ReturnWith(d, r) ==
    /\ pc' = [pc EXCEPT ![d] = "done"]
    /\ res' = [res EXCEPT ![d] = r]
    /\ nret' = [nret EXCEPT ![d] = NoPoint]
    /\ tasks' = Orphaned(tasks, d)
    /\ wg' = [wg EXCEPT ![d] = 0]

\* ------------------------------------------------------------------ Optimize

\* Optimize, entry: reject when running, else mark running.
OptimizeEnter(d) ==
    /\ Alive
    /\ pc[d] \in {"idle", "done"}
    /\ mu = Free
    /\ IF running
       THEN /\ ReturnWith(d, NoResult(ErrAlreadyRunning))
            /\ UNCHANGED <<running, stopped>>
       ELSE /\ running' = TRUE
            /\ pc' = [pc EXCEPT ![d] = "check"]
            /\ res' = [res EXCEPT ![d] = NoResult(NoErr)]
            /\ stopped' = [stopped EXCEPT ![d] = FALSE]
            /\ UNCHANGED <<nret, tasks, wg>>
    /\ UNCHANGED <<issued, round, config, units, explorationErr, mu, gpvars, nx>>

\* Optimize, top of the loop: if !o.Running() return the stop error.
OptimizeCheck(d) ==
    /\ Alive
    /\ pc[d] = "check"
    /\ mu = Free
    /\ IF ~Running
       THEN ReturnWith(d, NoResult(ErrStopSignal))
       ELSE /\ pc' = [pc EXCEPT ![d] = "next"]
            /\ UNCHANGED <<res, nret, tasks, wg>>
    /\ UNCHANGED <<issued, round, config, units, running, explorationErr, mu, gpvars, nx, stopped>>

\* Optimize, after Next returned: error, break, spawn a task, or go on to wg.Wait.
OptimizeDispatch(d) ==
    /\ Alive
    /\ pc[d] = "dispatch"
    /\ IF nret[d].err # NoErr
       THEN ReturnWith(d, NoResult(Wrap(nret[d].err, "failed to get next point")))
       ELSE IF nret[d].nil
       THEN /\ pc' = [pc EXCEPT ![d] = "clear"]
            /\ UNCHANGED <<res, nret, tasks, wg>>
       ELSE IF nret[d].parallel
       THEN /\ wg' = [wg EXCEPT ![d] = @ + 1]
            /\ tasks' = tasks (+) SetToBag({[x |-> nret[d].x, wg |-> d]})
            /\ pc' = [pc EXCEPT ![d] = "check"]
            /\ nret' = [nret EXCEPT ![d] = NoPoint]
            /\ UNCHANGED res
       ELSE /\ pc' = [pc EXCEPT ![d] = "wait"]
            /\ UNCHANGED <<res, nret, tasks, wg>>
    /\ UNCHANGED <<issued, round, config, units, running, explorationErr, mu, gpvars, nx, stopped>>

\* Mutant of OptimizeWait: the sequential round does not await the tasks.
OptimizeNoWait(d) ==
    /\ Alive
    /\ pc[d] = "wait"
    /\ pc' = [pc EXCEPT ![d] = "eval"]
    /\ UNCHANGED <<issued, round, config, units, running, explorationErr, mu, gpvars, nret, res, wg,
                   tasks, nx, stopped>>

\* Optimize, sequential round: wg.Wait() returns when the counter is zero.
OptimizeWait(d) ==
    /\ Alive
    /\ pc[d] = "wait"
    /\ wg[d] = 0
    /\ pc' = [pc EXCEPT ![d] = "eval"]
    /\ UNCHANGED <<issued, round, config, units, running, explorationErr, mu, gpvars, nret, res, wg,
                   tasks, nx, stopped>>

\* Optimize, sequential round: o.Log(x, f(x)) inline.
OptimizeEvalLog(d) ==
    /\ Alive
    /\ pc[d] = "eval"
    /\ mu = Free
    /\ \E y \in objective : Add(LogVector(nret[d].x), y)
    /\ pc' = [pc EXCEPT ![d] = "check"]
    /\ nret' = [nret EXCEPT ![d] = NoPoint]
    /\ UNCHANGED <<issued, round, config, units, running, explorationErr, mu, res, wg, tasks, nx, stopped>>

\* A goroutine of a parallel round: o.Log(x, f(x)), then wg.Done().
TaskRun(t) ==
    /\ Alive
    /\ BagIn(t, tasks)
    /\ mu = Free
    /\ \E y \in objective : Add(LogVector(t.x), y)
    /\ tasks' = tasks (-) SetToBag({t})
    /\ wg' = IF t.wg \in Drivers THEN [wg EXCEPT ![t.wg] = @ - 1] ELSE wg
    /\ UNCHANGED <<issued, round, config, units, running, explorationErr, mu, pc, nret, res, nx, stopped>>

\* Optimize, after the loop: running = false under the mutex.
OptimizeClear(d) ==
    /\ Alive
    /\ pc[d] = "clear"
    /\ mu = Free
    /\ running' = FALSE
    /\ pc' = [pc EXCEPT ![d] = "extract"]
    /\ UNCHANGED <<issued, round, config, units, explorationErr, mu, gpvars, nret, res, wg, tasks, nx,
                   stopped>>

\* gp.Minimum / gp.Maximum
Minimum == LET i == MinIdx(outputs) IN [x |-> inputs[i], y |-> outputs[i]]
Maximum == LET i == MaxIdx(outputs) IN [x |-> inputs[i], y |-> outputs[i]]

\* Optimize, the final result, read without the mutex. floats.MinIdx and
\* floats.MaxIdx panic on an empty slice.
OptimizeExtract(d) ==
    /\ Alive
    /\ pc[d] = "extract"
    /\ IF outputs = <<>>
       THEN /\ pc' = [pc EXCEPT ![d] = "panic"]
            /\ UNCHANGED <<res, nret, tasks, wg>>
       ELSE LET e == IF minimize THEN Minimum ELSE Maximum
            IN ReturnWith(d, [nil |-> FALSE, x |-> MapOf(params, e.x), y |-> e.y,
                              err |-> NoErr])
    /\ UNCHANGED <<issued, round, config, units, running, explorationErr, mu, gpvars, nx, stopped>>

\* Optimizer.Stop
Stop ==
    /\ Alive
    /\ mu = Free
    /\ running' = FALSE
    /\ stopped' = [d \in Drivers |-> stopped[d] \/ pc[d] \in Active]
    /\ UNCHANGED <<issued, round, config, units, explorationErr, mu, gpvars, pc, nret, res, wg, tasks, nx>>

\* ------------------------------------------------------------------ Next

CanCallNext(c) == IF c \in Drivers THEN pc[c] = "next" ELSE pc[c] \in {"idle", "got"}

\* Mutants of Terminated: one round too many, one round too few, no budget.
TerminatedLate == round > rounds \/ explorationErr # NoErr
TerminatedEarly == round + 1 >= rounds \/ explorationErr # NoErr
TerminatedOnError == explorationErr # NoErr

\* Next, lines 193-197: no next point.
Terminated == round >= rounds \/ explorationErr # NoErr

NextNone(c) ==
    /\ Alive
    /\ CanCallNext(c)
    /\ mu = Free
    /\ Terminated
    /\ nret' = [nret EXCEPT ![c] = NoPoint]
    /\ pc' = [pc EXCEPT ![c] = IF c \in Drivers THEN "dispatch" ELSE "idle"]
    /\ UNCHANGED <<issued, round, config, units, running, explorationErr, mu, gpvars, res, wg, tasks,
                   nx, stopped>>

\* Mutant of NextRandom: the last warm-up round is reported parallel too.
NextRandomAllParallel(c) ==
    /\ Alive
    /\ CanCallNext(c)
    /\ mu = Free
    /\ ~Terminated
    /\ round < randomRounds
    /\ round' = round + 1
    /\ issued' = issued + 1
    /\ \E x \in sampleParamsMap(params) :
          nret' = [nret EXCEPT ![c] = Point(x, TRUE)]
    /\ pc' = [pc EXCEPT ![c] = AfterNext(c)]
    /\ UNCHANGED <<config, units, running, explorationErr, mu, gpvars, res, wg, tasks, nx, stopped>>

\* Next, lines 199-205: a random warm-up round.
NextRandom(c) ==
    /\ Alive
    /\ CanCallNext(c)
    /\ mu = Free
    /\ ~Terminated
    /\ round < randomRounds
    /\ round' = round + 1
    /\ issued' = issued + 1
    /\ \E x \in sampleParamsMap(params) :
          nret' = [nret EXCEPT ![c] = Point(x, round' # randomRounds)]
    /\ pc' = [pc EXCEPT ![c] = AfterNext(c)]
    /\ UNCHANGED <<config, units, running, explorationErr, mu, gpvars, res, wg, tasks, nx, stopped>>

\* Next, a model-driven round: the mutex is held until Next returns. On a GP
\* without observations the first query uses n = 0 and the nil alpha (gp.go, lines
\* 147-150), never assigned before a refit: a run-time panic.
NextModelBegin(c) ==
    /\ Alive
    /\ CanCallNext(c)
    /\ mu = Free
    /\ ~Terminated
    /\ ~(round < randomRounds)
    /\ mu' = c
    /\ nx' = NoNx
    /\ pc' = [pc EXCEPT ![c] = IF inputs = <<>> THEN "panic" ELSE "global"]
    /\ UNCHANGED <<issued, round, config, units, running, explorationErr, gpvars, nret, res, wg, tasks,
                   stopped>>

\* The errors the acquisition (f, Grad) can leave in fErr during one run.
FuncErrs == {NoErr, Wrap(ErrGP, "exploration error")}
GradErrs == {NoErr, Wrap(ErrGP, "exploration error"), Wrap(ErrGP, "gradient error")}
\* The errors optimize.Global and optimize.Local can return.
GlobalErrs == {NoErr, ErrOther}
LocalErrs == {NoErr, ErrLinesearcherFailure, ErrNoProgress, ErrFunc, ErrOther}
\* What optimize.Local returns beside the error: no result, or a location X with
\* whether its value is below the best so far (result.F < min).
LocalResults ==
    {[nil |-> TRUE, X |-> <<>>, better |-> FALSE]} \cup
    {[nil |-> FALSE, X |-> X, better |-> b] : X \in sampleParams(params), b \in BOOLEAN}

\* Next, lines 230-245: optimize.Global over sampled points.
NextGlobal(c) ==
    /\ Alive
    /\ pc[c] = "global"
    /\ mu = c
    /\ \E err \in GlobalErrs, fErr \in FuncErrs, X \in sampleParams(params) :
          IF err # NoErr
          THEN /\ nret' = [nret EXCEPT ![c] =
                            [NoPoint EXCEPT !.err = Wrap(err, "random sample failed")]]
               /\ pc' = [pc EXCEPT ![c] = IF c \in Drivers THEN "dispatch" ELSE "idle"]
               /\ mu' = Free
               /\ nx' = [NoNx EXCEPT !.fErr = fErr]
               /\ UNCHANGED explorationErr
          ELSE /\ explorationErr' = IF fErr # NoErr THEN fErr ELSE explorationErr
               /\ nx' = [fErr |-> fErr, minX |-> X, i |-> 0, fatal |-> NoErr,
                         ignored |-> NoErr]
               /\ pc' = [pc EXCEPT ![c] = "local"]
               /\ UNCHANGED <<nret, mu>>
    /\ UNCHANGED <<issued, round, config, units, running, gpvars, res, wg, tasks, stopped>>

\* Mutant of NextLocal: the wrapped error of every run is stored, also a nil one.
NextLocalStoresWrap(c) ==
    /\ Alive
    /\ pc[c] = "local"
    /\ mu = c
    /\ nx.i <= GradPoints
    /\ \E err \in LocalErrs, e \in GradErrs, result \in LocalResults :
          LET fErr == IF e # NoErr THEN e ELSE nx.fErr
              msg == IF nx.i = 0 THEN "random sample optimize failed"
                     ELSE "gradient descent failed"
              fatal == Wrap(err, msg)
              adopt == ~result.nil /\ result.better
          IN /\ explorationErr' = IF fErr # NoErr THEN fErr ELSE fatal
             /\ nx' = [fErr |-> fErr,
                       minX |-> IF adopt THEN result.X ELSE nx.minX,
                       i |-> nx.i + 1,
                       fatal |-> IF isFatalErr(err) THEN Wrap(err, msg) ELSE nx.fatal,
                       ignored |-> IF err # NoErr /\ ~isFatalErr(err) THEN err
                                   ELSE nx.ignored]
    /\ UNCHANGED <<issued, round, config, units, running, mu, gpvars, pc, nret, res, wg, tasks, stopped>>

\* Next, lines 254-266 (i = 0) and one pass of the loop of lines 269-282 (i >= 1):
\* optimize.Local from a start point.
NextLocal(c) ==
    /\ Alive
    /\ pc[c] = "local"
    /\ mu = c
    /\ nx.i <= GradPoints
    /\ \E err \in LocalErrs, e \in GradErrs, result \in LocalResults :
          LET fErr == IF e # NoErr THEN e ELSE nx.fErr
              msg == IF nx.i = 0 THEN "random sample optimize failed"
                     ELSE "gradient descent failed"
              fatal == IF isFatalErr(err) THEN Wrap(err, msg) ELSE explorationErr
              adopt == ~result.nil /\ result.better
          IN /\ explorationErr' = IF fErr # NoErr THEN fErr ELSE fatal
             /\ nx' = [fErr |-> fErr,
                       minX |-> IF adopt THEN result.X ELSE nx.minX,
                       i |-> nx.i + 1,
                       fatal |-> IF isFatalErr(err) THEN Wrap(err, msg) ELSE nx.fatal,
                       ignored |-> IF err # NoErr /\ ~isFatalErr(err) THEN err
                                   ELSE nx.ignored]
    /\ UNCHANGED <<issued, round, config, units, running, mu, gpvars, pc, nret, res, wg, tasks, stopped>>

\* Mutant of NextModelEnd: the round's point is returned whatever was stored.
NextModelEndAlways(c) ==
    /\ Alive
    /\ pc[c] = "local"
    /\ mu = c
    /\ nx.i > GradPoints
    /\ nret' = [nret EXCEPT ![c] = Point(MapOf(params, nx.minX), FALSE)]
    /\ pc' = [pc EXCEPT ![c] = AfterNext(c)]
    /\ round' = round + 1
    /\ issued' = issued + 1
    /\ mu' = Free
    /\ nx' = NoNx
    /\ UNCHANGED <<config, units, running, explorationErr, gpvars, res, wg, tasks, stopped>>

\* Next, lines 284-294: no point when an error was stored, else the argmin.
NextModelEnd(c) ==
    /\ Alive
    /\ pc[c] = "local"
    /\ mu = c
    /\ nx.i > GradPoints
    /\ IF explorationErr # NoErr
       THEN /\ nret' = [nret EXCEPT ![c] = NoPoint]
            /\ pc' = [pc EXCEPT ![c] = IF c \in Drivers THEN "dispatch" ELSE "idle"]
            /\ UNCHANGED <<round, issued>>
       ELSE /\ nret' = [nret EXCEPT ![c] = Point(MapOf(params, nx.minX), FALSE)]
            /\ pc' = [pc EXCEPT ![c] = AfterNext(c)]
            /\ round' = round + 1
            /\ issued' = issued + 1
    /\ mu' = Free
    /\ nx' = NoNx
    /\ UNCHANGED <<config, units, running, explorationErr, gpvars, res, wg, tasks, stopped>>

\* A direct caller logs the point it got from Next.  Log, line 305: the mutex
\* is taken.
ExtLogLock ==
    /\ Alive
    /\ pc[Ext] = "got"
    /\ mu = Free
    /\ mu' = Ext
    /\ pc' = [pc EXCEPT ![Ext] = "log"]
    /\ UNCHANGED <<issued, round, config, units, running, explorationErr, gpvars, nret, res, wg,
                   tasks, nx, stopped>>

\* Log, lines 308-313: the vector is built and added, and the mutex released.
ExtLog ==
    /\ Alive
    /\ pc[Ext] = "log"
    /\ mu = Ext
    /\ \E y \in objective : Add(LogVector(nret[Ext].x), y)
    /\ mu' = Free
    /\ pc' = [pc EXCEPT ![Ext] = "idle"]
    /\ nret' = [nret EXCEPT ![Ext] = NoPoint]
    /\ UNCHANGED <<issued, round, config, units, running, explorationErr, res, wg, tasks, nx, stopped>>

\* ------------------------------------------------------------------ specifications

NextCall(c) ==
    \/ NextNone(c)
    \/ NextRandom(c)
    \/ NextModelBegin(c)
    \/ NextGlobal(c)
    \/ NextLocal(c)
    \/ NextModelEnd(c)

Optimize(d) ==
    \/ OptimizeEnter(d)
    \/ OptimizeCheck(d)
    \/ OptimizeDispatch(d)
    \/ OptimizeWait(d)
    \/ OptimizeEvalLog(d)
    \/ OptimizeClear(d)
    \/ OptimizeExtract(d)

Single == "d1"

\* One thread calls Optimize again and again while others call Next, Log and Stop.
Next ==
    \/ Optimize(Single)
    \/ \E c \in {Single, Ext} : NextCall(c)
    \/ \E t \in BagToSet(tasks) : TaskRun(t)
    \/ ExtLogLock
    \/ ExtLog
    \/ Stop

Spec == Init /\ [][Next]_vars

\* Two threads call Optimize again and again while another calls Stop.
NextTwo ==
    \/ \E d \in Drivers : Optimize(d)
    \/ \E d \in Drivers : NextCall(d)
    \/ \E t \in BagToSet(tasks) : TaskRun(t)
    \/ Stop

SpecTwo == Init /\ [][NextTwo]_vars

\* One Optimize run on a fresh optimizer, with Stop from another thread.

NextSingle ==
    \/ pc[Single] = "idle" /\ OptimizeEnter(Single)
    \/ OptimizeCheck(Single)
    \/ OptimizeDispatch(Single)
    \/ OptimizeWait(Single)
    \/ OptimizeEvalLog(Single)
    \/ OptimizeClear(Single)
    \/ OptimizeExtract(Single)
    \/ NextCall(Single)
    \/ \E t \in BagToSet(tasks) : TaskRun(t)
    \/ Stop

SpecSingle == InitSingle /\ [][NextSingle]_vars

\* ------------------------------------------------------------------ gp.GP on its own

\* The number of observations a GP is given.
MaxObs == 3
\* The vectors a caller passes to Add, Estimate and Gradient.
Vectors == {<<0>>, <<1>>, <<0, 0>>}

ErrFactorizeFailed == NewErr("failed to factorize")
\* An error of a triangular solve other than mat.Condition.
ErrSolve == NewErr("solve failed")

\* What compute derives from the observations, as terms over the data used.
Factorize(xs) == <<"chol", xs>>
Mean(ys) == <<"mean", ys>>
StdDev(ys) == <<"stddev", ys>>
SolveVecTo(L, ys) == <<"solve", L, ys>>

\* cov.Cov and cov.Grad take vectors of one length (floats.Distance panics otherwise).
SameDims(xs) == \A i, j \in 1..Len(xs) : Len(xs[i]) = Len(xs[j])

\* How a refit can end: success, Factorize reports failure, SolveVecTo fails.
ComputeOutcomes == {"ok", "factorize", "solve"}

\* GP.compute with outcome o: the error it returns and the fields after it.
\* The deferred function clears dirty on every return; normOutputs assigns
\* mean and stddev once Factorize succeeded; alpha, l and n are assigned last.
compute(o) ==
    [err |-> CASE o = "ok" -> NoErr
               [] o = "factorize" -> Wrap(ErrFactorizeFailed, "compute")
               [] o = "solve" -> Wrap(ErrSolve, "failed to solve for alpha"),
     dirty |-> FALSE,
     mean |-> IF o = "factorize" THEN mean ELSE Mean(outputs),
     stddev |-> IF o = "factorize" THEN stddev ELSE StdDev(outputs),
     alpha |-> IF o = "ok" THEN SolveVecTo(Factorize(inputs), outputs) ELSE alpha,
     l |-> IF o = "ok" THEN Factorize(inputs) ELSE l,
     n |-> IF o = "ok" THEN Len(inputs) ELSE n]

\* Mutant of NoCompute: the query refits although dirty is false.
Recompute == compute("ok")

\* A query that finds dirty false does not call compute.
NoCompute ==
    [err |-> NoErr, dirty |-> dirty, mean |-> mean, stddev |-> stddev, alpha |-> alpha,
     l |-> l, n |-> n]

\* A panic ends the process.
GPAlive == gret.status # "panic"
Panic(op) == [NoQuery EXCEPT !.op = op, !.status = "panic"]
Failed(op, err) == [NoQuery EXCEPT !.op = op, !.status = "error", !.err = err]

\* stat.MeanStdDev returns sqrt(ss / (n - 1)) as the standard deviation: NaN
\* (0/0) for fewer than two values and 0 for two or more equal values.
StdDevIsNaN(ys) == Len(ys) <= 1
StdDevIsZero(ys) == Len(ys) >= 2 /\ \A i, j \in 1..Len(ys) : ys[i] = ys[j]

\* normOutputs: (v - mean) / stddev for each output v, which is NaN when stddev
\* is NaN and when it is 0 (then v = mean and the quotient is 0/0).
normOutputs(ys) ==
    [i \in 1..Len(ys) |->
        IF StdDevIsNaN(ys) \/ StdDevIsZero(ys) THEN NaN ELSE <<"norm", ys, i>>]

Distinct(xs) == \A i, j \in 1..Len(xs) : xs[i] = xs[j] => i = j

\* The mean and sd Estimate computes at x from the fit used, with the inputs xs
\* the GP holds, in real arithmetic.  With alpha = K^-1 b for the kernel matrix
\* K of distinct inputs and b the normalised outputs, kstar at the input i is
\* the row i of K, so kstar . alpha = b[i], the mean is b[i] * stddev + mean
\* and the variance is cov(x, x) - kstar . K^-1 kstar = 0; a NaN in b makes
\* alpha and the mean NaN.  Elsewhere the value is a term over x.
Posterior(x, used, xs) ==
    LET L == used.alpha[2]
        ys == used.alpha[3]
        consistent == /\ used.n = Len(L[2])
                      /\ used.n <= Len(xs)
                      /\ L[2] = SubSeq(xs, 1, used.n)
                      /\ used.l = L
                      /\ used.mean = Mean(ys)
                      /\ used.stddev = StdDev(ys)
        I == {i \in 1..used.n : xs[i] = x}
    IN  IF ~consistent THEN [mean |-> <<"post", x>>, sd |-> <<"post", x>>]
        ELSE [mean |-> IF \E i \in 1..Len(ys) : normOutputs(ys)[i] = NaN THEN NaN
                       ELSE IF I # {} /\ Distinct(L[2])
                            THEN Num(ys[CHOOSE i \in I : TRUE])
                            ELSE <<"post", x>>,
              sd |-> IF I # {} /\ Distinct(L[2]) THEN Num(0) ELSE <<"post", x>>]

\* The body of Estimate and of Gradient after the refit c: both read gp.n and
\* dereference gp.alpha (nil before the first successful refit) and apply the
\* kernel to x and each of the first n inputs.
Query(op, x, c, used, lateErr) ==
    IF dirty /\ ~SameDims(inputs) THEN Panic(op)
    ELSE IF c.err # NoErr THEN Failed(op, Wrap(c.err, "failed to run compute"))
    ELSE IF c.alpha = Nil \/ \E i \in 1..c.n : Len(inputs[i]) # Len(x) THEN Panic(op)
    ELSE IF lateErr # NoErr THEN Failed(op, lateErr)
    ELSE [op |-> op, status |-> "ok", err |-> NoErr, used |-> used, x |-> x,
          value |-> IF op = "Estimate" THEN Posterior(x, used, inputs) ELSE NoValue,
          refit |-> FALSE]

Refit(c) ==
    /\ dirty' = c.dirty
    /\ mean' = c.mean
    /\ stddev' = c.stddev
    /\ alpha' = c.alpha
    /\ l' = c.l
    /\ n' = c.n

\* GP.Add called directly.
GPAdd(x, y) ==
    /\ GPAlive
    /\ Len(inputs) < MaxObs
    /\ Add(x, y)
    /\ UNCHANGED <<ctl, units>>

\* GP.Estimate: refit when dirty, then mean and sd from n, alpha, l, mean, stddev.
GPEstimate(x) ==
    /\ GPAlive
    /\ \E o \in ComputeOutcomes, late \in {NoErr, Wrap(ErrSolve, "failed to find v")} :
          LET c == IF dirty THEN compute(o) ELSE NoCompute
              used == [n |-> c.n, alpha |-> c.alpha, l |-> c.l, mean |-> c.mean,
                       stddev |-> c.stddev]
          IN /\ Refit(c)
             /\ gret' = [Query("Estimate", x, c, used, late) EXCEPT !.refit = dirty]
    /\ UNCHANGED <<inputs, outputs, ctl, sampling, relay, acq, kern, raw>>

\* GP.Gradient: refit when dirty, then the gradient from n, alpha and stddev.
GPGradient(x) ==
    /\ GPAlive
    /\ \E o \in ComputeOutcomes :
          LET c == IF dirty THEN compute(o) ELSE NoCompute
              used == [NoFit EXCEPT !.n = c.n, !.alpha = c.alpha, !.stddev = c.stddev]
          IN /\ Refit(c)
             /\ gret' = [Query("Gradient", x, c, used, NoErr) EXCEPT !.refit = dirty]
    /\ UNCHANGED <<inputs, outputs, ctl, sampling, relay, acq, kern, raw>>

\* No optimizer is in use.
NoOptimizer ==
    /\ New(<<>>, {})
    /\ rounds = 0
    /\ randomRounds = 0
    /\ minimize = FALSE

\* A unit on its own: no optimizer, and no call made yet.
InitUnit == NoOptimizer /\ Idle("none")

NextGP ==
    \/ \E x \in Vectors, y \in 0..MaxY : GPAdd(x, y)
    \/ \E x \in Vectors : GPEstimate(x)
    \/ \E x \in Vectors : GPGradient(x)

SpecGP == InitUnit /\ [][NextGP]_vars

\* ------------------------------------------------------------------ Param.Sample on its own
\* One call is followed from the state in which no call was made.

\* The intervals [Min, Max] and the Params sampled.
Intervals == {i \in (0..MaxBound) \X (0..MaxBound) : i[1] <= i[2]}
BasicParams ==
    {UniformParam(i[1], i[2]) : i \in Intervals} \cup
    {NormalParam(i[1], i[2], 1, 2) : i \in Intervals} \cup
    {ExponentialParam(i[1], i[2], 2) : i \in Intervals}

\* The values a draw function handed to truncateSample returns: below, inside
\* and above every interval.
DrawValues == (0 - 1)..(MaxBound + 1)
\* What the random source returns: the numerator k of rand.Float64() = k/Den,
\* rand.NormFloat64() and rand.ExpFloat64().
RawValues(p) ==
    CASE p.kind = "uniform" -> 0..(Den - 1)
      [] p.kind = "normal" -> (0 - MaxZ)..MaxZ
      [] p.kind = "exponential" -> 0..(2 * MaxZ)
\* The successive results of a source during one call.
Streams(S) == [1..(MaxTries + 1) -> S]

\* The expression each variant draws with, from the raw value z; a quotient is
\* rounded down to an integer.
Draw(p, z) ==
    CASE p.kind = "uniform" -> (z * (p.Max - p.Min)) \div Den + p.Min
      [] p.kind = "normal" -> z * p.StdDev + p.Mean
      [] p.kind = "exponential" -> z \div p.Rate

\* Mutant of Clamp: the last draw is returned as it is.
ClampNone(sample, min, max) == sample

\* math.Min(math.Max(sample, min), max)
Clamp(sample, min, max) ==
    LET m == IF sample > min THEN sample ELSE min
    IN IF m < max THEN m ELSE max

\* Mutant of MoreTries: one more try.
MoreTriesInclusive(i) == i <= SampleTries

\* The loop condition of truncateSample.
MoreTries(i) == i < SampleTries

\* truncateSample, from the i-th pass of its loop on; f[k] is the k-th result of f.
RECURSIVE truncateLoop(_, _, _, _)
truncateLoop(p, f, i, sample) ==
    IF MoreTries(i)
    THEN LET s == f[i + 1]
         IN IF s >= GetMin(p) /\ s <= GetMax(p)
            THEN [value |-> s, calls |-> i + 1]
            ELSE truncateLoop(p, f, i + 1, s)
    ELSE [value |-> Clamp(sample, GetMin(p), GetMax(p)), calls |-> i]

truncateSample(p, f) == truncateLoop(p, f, 0, 0)

\* Sample of the three basic variants, with the random source returning r.
Sample(p, r) ==
    IF p.kind = "uniform"
    THEN [value |-> Draw(p, r[1]), calls |-> 1, f |-> <<Draw(p, r[1])>>]
    ELSE LET f == [k \in DOMAIN r |-> Draw(p, r[k])]
         IN [value |-> truncateSample(p, f).value, calls |-> truncateSample(p, f).calls,
             f |-> f]

\* truncateSample called with a draw function of the caller.
TruncateSampleCall(p, f) ==
    /\ sret = NoSample
    /\ rej = NoRejection
    /\ sret' = [op |-> "truncateSample", p |-> p, f |-> f,
                value |-> truncateSample(p, f).value, calls |-> truncateSample(p, f).calls]
    /\ UNCHANGED <<SampleTries, rej, ctl, gpvars, gret, relay, acq, kern, raw>>

\* UniformParam.Sample, NormalParam.Sample, ExponentialParam.Sample
SampleCall(p, r) ==
    /\ sret = NoSample
    /\ rej = NoRejection
    /\ sret' = [op |-> "Sample", p |-> p, f |-> Sample(p, r).f,
                value |-> Sample(p, r).value, calls |-> Sample(p, r).calls]
    /\ UNCHANGED <<SampleTries, rej, ctl, gpvars, gret, relay, acq, kern, raw>>

\* The Params a RejectionParam wraps and the functions F it is given: F[1] is
\* Den times its value at 0 and below, F[2] Den times its value above 0.
Wrapped == {UniformParam(0, MaxBound), NormalParam(0, 1, 1, 2), ExponentialParam(1, MaxBound, 2)}
Fs == (0..(Den + 1)) \X (0..(Den + 1))
ApplyF(F, x) == IF x <= 0 THEN F[1] ELSE F[2]

\* Mutant of Accepts: a draw is accepted when rand.Float64() <= y.
AcceptsAtEqual(u, y) == u <= y

\* rand.Float64() < y, both as numerators over Den.
Accepts(u, y) == u < y

\* RejectionParam.Sample is called.
RejectionSample(inner, F) ==
    /\ sret = NoSample
    /\ rej = NoRejection
    /\ rej' = [NoRejection EXCEPT !.pc = "loop", !.Param = inner, !.F = F]
    /\ UNCHANGED <<SampleTries, sret, ctl, gpvars, gret, relay, acq, kern, raw>>

\* One pass of the loop of RejectionParam.Sample.
RejectionTry ==
    /\ rej.pc = "loop"
    /\ rej.iter < MaxIter
    /\ \E r \in Streams(RawValues(rej.Param)), u \in 0..(Den - 1) :
          LET x == Sample(rej.Param, r).value
              y == ApplyF(rej.F, x)
          IN rej' = [rej EXCEPT !.iter = @ + 1, !.x = x, !.u = u,
                                !.pc = IF Accepts(u, y) THEN "returned" ELSE "loop",
                                !.ret = IF Accepts(u, y) THEN x ELSE @]
    /\ UNCHANGED <<SampleTries, sret, ctl, gpvars, gret, relay, acq, kern, raw>>

InitSample ==
    /\ NoOptimizer
    /\ Idle("sample")
    /\ SampleTries \in 0..MaxTries
    /\ sret = NoSample
    /\ rej = NoRejection

NextSample ==
    \/ \E p \in BasicParams, f \in Streams(DrawValues) : TruncateSampleCall(p, f)
    \/ \E p \in BasicParams : \E r \in Streams(RawValues(p)) : SampleCall(p, r)
    \/ \E inner \in Wrapped, F \in Fs : RejectionSample(inner, F)
    \/ RejectionTry

SpecSample == InitSample /\ [][NextSample]_vars

\* ------------------------------------------------------------------ BoundsMethod on its own

\* The number of tasks sent in each direction.
MaxMsgs == 2
\* BoundsMethod.Bounds
Bounds == ParamList
\* The locations tasks carry: none, or a vector with one coordinate per bound.
Locations == {NoLocation, Location(<<0 - 1, 3>>), Location(<<0, 2>>), Location(<<2, 1>>)}

\* Mutant of constrain: only the upper bounds are enforced.
constrainMax(loc) ==
    IF loc.nil THEN loc
    ELSE [loc EXCEPT !.X = [i \in DOMAIN loc.X |->
             IF i \in DOMAIN Bounds /\ loc.X[i] > GetMax(Bounds[i])
             THEN GetMax(Bounds[i]) ELSE loc.X[i]]]

\* BoundsMethod.constrain
constrain(loc) ==
    IF loc.nil THEN loc
    ELSE [loc EXCEPT !.X = [i \in DOMAIN loc.X |->
             IF i \notin DOMAIN Bounds THEN loc.X[i]
             ELSE IF loc.X[i] > GetMax(Bounds[i]) THEN GetMax(Bounds[i])
             ELSE IF loc.X[i] < GetMin(Bounds[i]) THEN GetMin(Bounds[i])
             ELSE loc.X[i]]]

\* The channel a relay goroutine ranges over and the one it sends on.
In(r) == IF r = "request" THEN "op" ELSE "result"
Out(r) == IF r = "request" THEN "operation" ELSE "res"

\* Mutant of Deliver: the task overtakes those delivered before.
DeliverFirst(sent, t) == <<t>> \o sent

\* A send on an unbuffered channel completes: t is what the receiver gets next.
Deliver(sent, t) == Append(sent, t)

\* BoundsMethod.Run is called with the tasks ts: the relay goroutines start, the
\* initial locations are constrained and the wrapped method's Run is entered.
Run(ts) ==
    /\ ~run.started
    /\ run' = [started |-> TRUE, passed |-> ts,
               tasks |-> [k \in DOMAIN ts |-> [ts[k] EXCEPT !.Location = constrain(@)]]]
    /\ UNCHANGED <<ch, held, ctl, gpvars, gret, sampling, acq, kern, raw>>

\* The wrapped method sends a task on op, or the caller of Run one on result:
\* the relay goroutine waiting in its range loop receives it.
Send(r, loc) ==
    /\ run.started
    /\ ~ch[In(r)].closed
    /\ held[r] = NoTask
    /\ Len(ch[In(r)].sent) < MaxMsgs
    /\ LET t == [ID |-> Len(ch[In(r)].sent) + 1, Location |-> loc]
       IN /\ ch' = [ch EXCEPT ![In(r)].sent = Append(@, t)]
          /\ held' = [held EXCEPT ![r] = t]
    /\ UNCHANGED <<run, ctl, gpvars, gret, sampling, acq, kern, raw>>

\* A relay goroutine constrains the location of the task it holds and sends it on.
Forward(r) ==
    /\ held[r] # NoTask
    /\ ch' = [ch EXCEPT ![Out(r)].sent =
                 Deliver(@, [held[r] EXCEPT !.Location = constrain(@)])]
    /\ held' = [held EXCEPT ![r] = NoTask]
    /\ UNCHANGED <<run, ctl, gpvars, gret, sampling, acq, kern, raw>>

\* The wrapped method closes op, or the caller of Run closes result.
Close(r) ==
    /\ run.started
    /\ ~ch[In(r)].closed
    /\ ch' = [ch EXCEPT ![In(r)].closed = TRUE]
    /\ UNCHANGED <<held, run, ctl, gpvars, gret, sampling, acq, kern, raw>>

\* Mutant of RelayExit: the output channel is closed as soon as the input
\* channel is, whether or not a received task was sent on.
RelayExitEarly(r) ==
    /\ ch[In(r)].closed
    /\ ~ch[Out(r)].closed
    /\ ch' = [ch EXCEPT ![Out(r)].closed = TRUE]
    /\ UNCHANGED <<held, run, ctl, gpvars, gret, sampling, acq, kern, raw>>

\* A relay goroutine finds its channel closed and drained: its range loop ends
\* and the deferred close of its output channel runs.
RelayExit(r) ==
    /\ ch[In(r)].closed
    /\ held[r] = NoTask
    /\ ~ch[Out(r)].closed
    /\ ch' = [ch EXCEPT ![Out(r)].closed = TRUE]
    /\ UNCHANGED <<held, run, ctl, gpvars, gret, sampling, acq, kern, raw>>

NextRelay ==
    \/ \E k \in 0..1 : \E ts \in [1..k -> {[NoTask EXCEPT !.Location = x] : x \in Locations}] :
          Run(ts)
    \/ \E r \in Relays, x \in Locations : Send(r, x)
    \/ \E r \in Relays : Forward(r)
    \/ \E r \in Relays : Close(r)
    \/ \E r \in Relays : RelayExit(r)

SpecRelay == InitUnit /\ [][NextRelay]_vars

\* The relay goroutines are scheduled and the receiver of their output channel
\* takes what they send: a pending send and a pending exit both happen.
SpecRelayFair ==
    /\ InitUnit
    /\ [][NextRelay]_vars
    /\ \A r \in Relays : WF_vars(Forward(r)) /\ WF_vars(RelayExit(r))

\* ------------------------------------------------------------------ the acquisition on its own

\* What gp.Estimate returns: a mean and a standard deviation, or zeros and an error.
Estimates ==
    {[mean |-> m, sd |-> sd, err |-> NoErr] : m \in (0 - MaxZ)..MaxZ, sd \in 0..MaxZ} \cup
    {[mean |-> 0, sd |-> 0, err |-> e] : e \in {ErrGP, Wrap(ErrSolve, "failed to find v")}}

\* Mutant of UCBEstimate: the upper bound, whatever minimize is.
UCBUpper(Kappa, est, min) ==
    IF est.err # NoErr THEN [v |-> 0, err |-> est.err]
    ELSE [v |-> est.mean + Kappa * est.sd, err |-> NoErr]

\* UCB.Estimate, given what gp.Estimate returned.
UCBEstimate(Kappa, est, min) ==
    IF est.err # NoErr THEN [v |-> 0, err |-> est.err]
    ELSE IF min THEN [v |-> est.mean - Kappa * est.sd, err |-> NoErr]
    ELSE [v |-> est.mean + Kappa * est.sd, err |-> NoErr]

\* The function f that Next hands to the inner optimizer, given what the
\* exploration returned: the value it returns and what it leaves in fErr.
Func(u, min) ==
    [v |-> IF min THEN u.v ELSE 0 - u.v, fErr |-> Wrap(u.err, "exploration error")]

\* One evaluation of f at a point where the GP answers est.
Evaluate(Kappa, est, min) ==
    /\ acq' = [called |-> TRUE, minimize |-> min, Kappa |-> Kappa, est |-> est,
               ucb |-> UCBEstimate(Kappa, est, min),
               f |-> Func(UCBEstimate(Kappa, est, min), min).v,
               fErr |-> Func(UCBEstimate(Kappa, est, min), min).fErr]
    /\ UNCHANGED <<ctl, gpvars, gret, sampling, relay, kern, raw>>

NextAcq == \E Kappa \in 0..MaxZ, est \in Estimates, min \in BOOLEAN : Evaluate(Kappa, est, min)

SpecAcq == InitUnit /\ [][NextAcq]_vars

\* ------------------------------------------------------------------ the kernel on its own

\* A float64 is kept as Scale times its value, rounded down.
Scale == 1000
\* The vectors the kernel is applied to.
CovVectors == {<<x>> : x \in 0..MaxBound} \cup ((0..MaxBound) \X (0..MaxBound))

\* Mutant of Distance: the differences are summed as they are.
DistanceSigned(a, b) ==
    LET ss[i \in 0..Len(a)] == IF i = 0 THEN 0 ELSE ss[i - 1] + (a[i] - b[i])
    IN  ss[Len(a)] * Scale

\* floats.Distance(a, b, 2): the square root of the sum of the squared differences.
Distance(a, b) ==
    LET ss[i \in 0..Len(a)] ==
            IF i = 0 THEN 0 ELSE ss[i - 1] + (a[i] - b[i]) * (a[i] - b[i])
        sq == ss[Len(a)]
        whole == CHOOSE r \in 0..sq : r * r <= sq /\ sq < (r + 1) * (r + 1)
    IN  CHOOSE r \in (whole * Scale)..((whole + 1) * Scale) :
            r * r <= sq * Scale * Scale /\ sq * Scale * Scale < (r + 1) * (r + 1)

\* MaternCov.Cov: (1 + sqrt(5)*d/p + 5*d*d/(3*p*p)) * exp(-sqrt(5)*d/p) with p = 2,
\* sqrt(5) taken as 2.236 and exp(-t) as the reciprocal of the power series of
\* exp(t) up to the 16th power.
Cov(a, b) ==
    LET p == 2
        d == Distance(a, b)
        t == (2236 * d) \div (p * Scale)
        poly == Scale + t + (5 * d * d) \div (3 * p * p * Scale)
        term[k \in 0..16] == IF k = 0 THEN Scale ELSE (term[k - 1] * t) \div (k * Scale)
        sum[k \in 0..16] == IF k = 0 THEN term[0] ELSE sum[k - 1] + term[k]
    IN  (poly * Scale) \div sum[16]

\* One call of MaternCov.Cov; floats.Distance panics when the lengths differ.
CovCall(a, b) ==
    /\ kern.status # "panic"
    /\ kern' = IF Len(a) # Len(b) THEN [status |-> "panic", a |-> a, b |-> b, v |-> 0]
               ELSE [status |-> "ok", a |-> a, b |-> b, v |-> Cov(a, b)]
    /\ UNCHANGED <<ctl, gpvars, gret, sampling, relay, acq, raw>>

NextCov == \E a, b \in CovVectors : CovCall(a, b)

SpecCov == InitUnit /\ [][NextCov]_vars

\* ------------------------------------------------------------------ GP.RawData on its own

\* The writes a caller makes to what RawData returned.
MaxWrites == 2

\* Mutant of RawData: new outer slices that hold the GP's own input vectors.
RawDataShallow ==
    [called |-> TRUE, inputs |-> inputs, outputs |-> outputs, shared |-> {"inputs"},
     writes |-> 0]

\* GP.RawData: slices made anew, every input vector and the outputs copied
\* element by element; no memory is shared with the GP.
RawData ==
    [called |-> TRUE,
     inputs |-> [i \in 1..Len(inputs) |-> [j \in 1..Len(inputs[i]) |-> inputs[i][j]]],
     outputs |-> [i \in 1..Len(outputs) |-> outputs[i]],
     shared |-> {},
     writes |-> 0]

RawDataCall ==
    /\ ~raw.called
    /\ raw' = RawData
    /\ UNCHANGED <<ctl, gpvars, gret, sampling, relay, acq, kern>>

\* The caller assigns v to element j of the returned input vector i, or to the
\* returned output i; the write reaches the GP where the memory is shared.
Write(slice, i, j, v) ==
    /\ raw.called
    /\ raw.writes < MaxWrites
    /\ i \in 1..Len(raw[slice])
    /\ IF slice = "inputs"
       THEN /\ j \in 1..Len(raw.inputs[i])
            /\ v # raw.inputs[i][j]
            /\ raw' = [raw EXCEPT !.inputs[i][j] = v, !.writes = @ + 1]
            /\ inputs' = IF "inputs" \in raw.shared THEN [inputs EXCEPT ![i][j] = v]
                          ELSE inputs
            /\ UNCHANGED outputs
       ELSE /\ j = 1
            /\ v # raw.outputs[i]
            /\ raw' = [raw EXCEPT !.outputs[i] = v, !.writes = @ + 1]
            /\ outputs' = IF "outputs" \in raw.shared THEN [outputs EXCEPT ![i] = v]
                           ELSE outputs
            /\ UNCHANGED inputs
    /\ UNCHANGED <<dirty, fit, ctl, gret, sampling, relay, acq, kern>>

NextRaw ==
    \/ \E x \in Vectors, y \in 0..MaxY : GPAdd(x, y)
    \/ RawDataCall
    \/ \E slice \in {"inputs", "outputs"}, i \in 1..MaxObs, j \in 1..2, v \in 0..MaxY :
          Write(slice, i, j, v)

SpecRaw == InitUnit /\ [][NextRaw]_vars

\* ------------------------------------------------------------------ claims

\* A step in which caller c enters Next (takes the mutex at line 190).
EntersNext(c) == CanCallNext(c) /\ mu = Free /\ NextCall(c)

\* C1: a Next call made while round < randomRounds, round < rounds and
\* explorationErr is unset returns a non-nil point with one sampled value per
\* parameter and no error, increments round by exactly 1, and reports
\* parallel = true unless round after the increment equals randomRounds.
C1_WarmupRound ==
    [][\A c \in Callers :
        (EntersNext(c) /\ round < randomRounds /\ round < rounds /\ explorationErr = NoErr)
        => /\ ~nret'[c].nil
           /\ nret'[c].err = NoErr
           /\ DOMAIN nret'[c].x = Range(params)
           /\ \A p \in Range(params) : nret'[c].x[p] \in SampleSet(p)
           /\ round' = round + 1
           /\ nret'[c].parallel = (round' # randomRounds)]_vars

\* A caller holds the point of the final warm-up round, reported sequential,
\* while a task of an earlier, parallel warm-up round is still running.
C1_Witness ==
    \E c \in Callers :
        /\ pc[c] = AfterNext(c)
        /\ ~nret[c].nil
        /\ ~nret[c].parallel
        /\ round = randomRounds
        /\ randomRounds >= 2
        /\ tasks # EmptyBag

\* C2: whenever round >= rounds or explorationErr is set, Next reports no next
\* point (nil x, parallel false, nil error) and leaves round, explorationErr and
\* the observation set unchanged; the condition, once true, stays true, so this
\* holds for every later Next call, and Next never returns more than `rounds`
\* points.
C2_NoNextPoint ==
    /\ [][\A c \in Callers :
            (EntersNext(c) /\ (round >= rounds \/ explorationErr # NoErr))
            => /\ nret'[c] = NoPoint
               /\ UNCHANGED <<round, explorationErr, inputs, outputs>>]_vars
    /\ [][(round >= rounds \/ explorationErr # NoErr)
            => (round' >= rounds' \/ explorationErr' # NoErr)]_vars
    /\ [](issued <= rounds)

\* The whole budget was issued and a later Next call came back empty-handed.
C2_Witness ==
    /\ rounds >= 2
    /\ issued = rounds
    /\ explorationErr = NoErr
    /\ pc[Single] = "dispatch"
    /\ nret[Single] = NoPoint

C4_ModelRoundSeesAll ==
    pc[Single] \in {"global", "local"}
    => /\ round >= randomRounds
       /\ Len(outputs) = round
       /\ Len(inputs) = round
       /\ tasks = EmptyBag
       /\ wg[Single] = 0

\* The first model-driven round after a warm-up with parallel rounds.
C4_Witness ==
    /\ pc[Single] = "global"
    /\ randomRounds >= 2
    /\ round = randomRounds
    /\ Len(outputs) = randomRounds

\* C5: when Next reports no next point, Optimize has awaited every outstanding
\* task before it reads Minimum/Maximum: at that moment every point issued by
\* Next is logged (observation count = Rounds()) and no task is running.
C5_AwaitsBeforeResult ==
    pc[Single] = "extract"
    => /\ tasks = EmptyBag
       /\ wg[Single] = 0
       /\ Len(outputs) = Rounds

\* C6: when Optimize returns normally on a non-empty observation set, the
\* returned (x, y) is one of the logged observations, y is the minimum of the
\* logged outputs when minimize is true and the maximum when it is false, ties
\* go to the earliest-logged observation, and x is keyed by the Params the
\* optimizer was created with.
C6_ExtremeObservation ==
    [][\A d \in Drivers :
        (pc[d] = "extract" /\ pc'[d] = "done")
        => LET r == res'[d] IN
           /\ ~r.nil
           /\ r.err = NoErr
           /\ DOMAIN r.x = Range(params)
           /\ \E i \in 1..Len(outputs) :
                /\ r.y = outputs[i]
                /\ \A k \in 1..Len(params) : r.x[params[k]] = inputs[i][k]
                /\ \A j \in 1..Len(outputs) :
                     IF minimize THEN outputs[j] >= r.y ELSE outputs[j] <= r.y
                /\ \A j \in 1..(i - 1) : outputs[j] # r.y]_vars

\* Optimize returned the earlier of two observations that tie for the extreme
\* output and differ in x.
C6_Witness ==
    /\ pc[Single] = "done"
    /\ ~res[Single].nil
    /\ \E i, j \in 1..Len(outputs) :
         /\ i < j
         /\ outputs[i] = res[Single].y
         /\ outputs[j] = res[Single].y
         /\ inputs[i] # inputs[j]
         /\ \A k \in 1..Len(params) : res[Single].x[params[k]] = inputs[i][k]
         /\ \E m \in 1..Len(outputs) : outputs[m] # res[Single].y

\* C7: concurrent Optimize invocations are rejected, so that in every
\* interleaving of Optimize, Stop and Log calls at most one driver loop is
\* active on an optimizer.
C7_OneDriverLoop ==
    Cardinality({d \in Drivers : pc[d] \in Active}) <= 1

\* C8: if Stop is called after an Optimize invocation marked the optimizer
\* running and before it returns, the invocation terminates at its next loop
\* check and returns the stop error with no result.
C8_StopAtNextCheck ==
    [][\A d \in Drivers :
        (pc[d] = "check" /\ pc'[d] # "check" /\ stopped[d])
        => /\ pc'[d] = "done"
           /\ res'[d] = NoResult(ErrStopSignal)]_vars

\* C9: the running flag is cleared by the time an Optimize invocation that
\* passed the entry check returns, on every return path: after it returns,
\* Running() is false.
C9_RunningCleared ==
    pc[Single] = "done" => ~Running

\* C10: once ExplorationErr() is non-nil it stays non-nil after any Next, Log,
\* Stop and Optimize step, round never changes again, and every Next that
\* returns from then on reports no next point.
C10_StickyExplorationErr ==
    [][ExplorationErr # NoErr
        => /\ explorationErr' # NoErr
           /\ round' = round
           /\ \A c \in Callers : nret'[c] # nret[c] => nret'[c] = NoPoint]_vars

\* With the error stored and budget left, a direct Next call came back
\* empty-handed and a later Optimize call returned without an error.
C10_Witness ==
    /\ ExplorationErr # NoErr
    /\ round < rounds
    /\ round >= 1
    /\ pc[Single] = "done"
    /\ res[Single].err = NoErr
    /\ pc[Ext] = "idle"
    /\ nret[Ext] = NoPoint

\* The extreme observation of the current set, as Optimize returns it.
Extreme ==
    LET e == IF minimize THEN Minimum ELSE Maximum
    IN [nil |-> FALSE, x |-> MapOf(params, e.x), y |-> e.y, err |-> NoErr]

\* C11, as claimed: when a local optimization of a model-driven round failed
\* with a fatal error, that (wrapped) error is what explorationErr holds when
\* the Next call returns.
C11_Original ==
    [][\A c \in Callers :
        (pc[c] = "local" /\ pc'[c] # "local" /\ nx.fatal # NoErr)
        => explorationErr' = nx.fatal]_vars

\* C11, amended: when a local optimization of a model-driven round failed with
\* a fatal error, explorationErr is set when the Next call returns, to the error
\* the acquisition reported during the round if there is one and else to the
\* wrapped error of the last fatal local run; that Next call reports no next
\* point and leaves round unchanged; and the enclosing Optimize call does not
\* fail and returns a nil error with the extreme observation among those
\* logged so far.
C11_FatalLocalError ==
    /\ [][\A c \in Callers :
            (pc[c] = "local" /\ pc'[c] # "local" /\ nx.fatal # NoErr)
            => /\ explorationErr' = IF nx.fErr # NoErr THEN nx.fErr ELSE nx.fatal
               /\ explorationErr' # NoErr
               /\ nret'[c] = NoPoint
               /\ round' = round]_vars
    /\ []((pc[Single] = "local" /\ nx.fatal # NoErr)
            => [](/\ pc[Single] # "panic"
                  /\ pc[Single] = "done" => (outputs # <<>> /\ res[Single] = Extreme)))

\* Optimize returned the best of two warm-up observations after the restart of
\* the first model-driven round failed fatally with no acquisition error.
C11_Witness ==
    /\ pc[Single] = "done"
    /\ explorationErr = Wrap(ErrOther, "gradient descent failed")
    /\ round = randomRounds
    /\ round < rounds
    /\ res[Single] = Extreme
    /\ Len(outputs) = 2
    /\ outputs[1] # outputs[2]

\* The fitted state a query answered from is the one of the observations xs, ys.
Current(used, xs, ys) ==
    /\ used.n = Len(xs)
    /\ used.alpha = SolveVecTo(Factorize(xs), ys)
    /\ used.stddev = StdDev(ys)
    /\ used.l \in {Nil, Factorize(xs)}
    /\ used.mean \in {Zero, Mean(ys)}

\* A step in which Estimate or Gradient returns.
Answers == \E x \in Vectors : GPEstimate(x) \/ GPGradient(x)

\* C12: GP.Add with an x whose length differs from the dimensionality fixed by
\* the first insertion fails and leaves the observation set unchanged, so all
\* stored inputs always share one length.
C12_OneDimension == SameDims(inputs)

\* C13: whenever Estimate or Gradient returns a result without error, dirty is
\* false and the fitted state used for the answer (n, Cholesky factor, alpha,
\* mean, stddev) was all computed from the complete current observation set.
C13_AnswersFromCurrentFit ==
    [][(Answers /\ gret'.status = "ok") => (~dirty' /\ Current(gret'.used, inputs', outputs'))]_vars

\* C14: when a refit fails because the kernel matrix cannot be factorized, the
\* query returns an error whose cause is ErrFactorizeFailed and dirty is not
\* cleared, so that the next query attempts the refit again.
C14_FailedRefitStaysDirty ==
    [][(Answers /\ gret'.status = "error" /\ Cause(gret'.err) = ErrFactorizeFailed)
        => dirty']_vars

\* The tries of the last call whose draw was in range.
InRangeTries ==
    {k \in 1..SampleTries : sret.f[k] >= GetMin(sret.p) /\ sret.f[k] <= GetMax(sret.p)}

\* C15: truncateSample(p, f) returns the first draw of f that lies in
\* [p.GetMin(), p.GetMax()], having called f exactly k times when the k-th draw
\* is the first in range (k <= SampleTries); if none of the first SampleTries
\* draws is in range it returns the last draw clamped into [min, max] after
\* exactly SampleTries calls of f.
C15_TruncateSample ==
    (sret.op = "truncateSample" \/ (sret.op = "Sample" /\ sret.p.kind # "uniform"))
    => IF InRangeTries # {}
       THEN LET k == CHOOSE i \in InRangeTries : \A j \in InRangeTries : i <= j
            IN sret.calls = k /\ sret.value = sret.f[k]
       ELSE /\ sret.calls = SampleTries
            /\ SampleTries >= 1 =>
                 LET s == sret.f[SampleTries]
                 IN sret.value = IF s < GetMin(sret.p) THEN GetMin(sret.p)
                                 ELSE IF s > GetMax(sret.p) THEN GetMax(sret.p) ELSE s

\* As with Uniform[5,10] and draws of 0: every try is below the interval and the
\* lower bound comes back after SampleTries calls.
C15_Witness ==
    /\ sret.op = "truncateSample"
    /\ SampleTries = MaxTries
    /\ sret.calls = SampleTries
    /\ \A k \in 1..SampleTries : sret.f[k] < GetMin(sret.p)
    /\ sret.value = GetMin(sret.p)
    /\ GetMin(sret.p) < GetMax(sret.p)

\* C16: for every Param variant (UniformParam, NormalParam, ExponentialParam,
\* and RejectionParam wrapping one of them) configured with min <= max, and for
\* every value of SampleTries >= 0, every value returned by Sample() lies in
\* [GetMin(), GetMax()].
C16_SampleInBounds ==
    /\ sret.op = "Sample" => (sret.value >= GetMin(sret.p) /\ sret.value <= GetMax(sret.p))
    /\ rej.pc = "returned" =>
         (rej.ret >= GetMin(rej.Param) /\ rej.ret <= GetMax(rej.Param))

\* With SampleTries = 0 a NormalParam returns its lower bound without a draw.
C16_Witness ==
    /\ SampleTries = 0
    /\ sret.op = "Sample"
    /\ sret.p.kind = "normal"
    /\ sret.calls = 0
    /\ GetMin(sret.p) > 0
    /\ sret.value = GetMin(sret.p)

\* C17: RejectionParam.Sample only ever returns a value that was drawn from the
\* inner Param and accepted by F; it has no iteration bound: if F returns 0 for
\* every draw the call never returns, and if F returns a value >= 1 for the
\* first draw the call returns that first draw.
C17_Rejection ==
    /\ [](rej.pc = "returned" =>
            /\ rej.ret = rej.x
            /\ rej.u < ApplyF(rej.F, rej.x)
            /\ ApplyF(rej.F, rej.x) > 0)
    /\ []((rej.F = <<0, 0>> /\ rej.pc # "idle") => rej.pc = "loop")
    /\ [][(rej.pc = "loop" /\ rej.iter = 0 /\ rej'.iter = 1 /\ ApplyF(rej.F, rej'.x) >= Den)
            => (rej'.pc = "returned" /\ rej'.ret = rej'.x)]_vars

\* A call returned its third draw after F turned two draws down.
C17_Witness ==
    /\ rej.pc = "returned"
    /\ rej.iter = MaxIter
    /\ ApplyF(rej.F, rej.ret) < Den

\* C18: BoundsMethod.Run is a transparent relay: the tasks delivered on the
\* outer operation channel are exactly those the wrapped method sent (same
\* count, same order, nothing dropped or duplicated, up to the one task a relay
\* goroutine holds), likewise the results delivered to the wrapped method are
\* those received on the outer result channel; only the coordinate vector of a
\* task's Location is ever altered.
C18_TransparentRelay ==
    \A r \in Relays :
        LET i == ch[In(r)].sent
            o == ch[Out(r)].sent
        IN /\ Len(i) = Len(o) + (IF held[r] = NoTask THEN 0 ELSE 1)
           /\ held[r] # NoTask => held[r] = i[Len(i)]
           /\ ch[Out(r)].closed => (ch[In(r)].closed /\ Len(o) = Len(i))
           /\ \A k \in 1..Len(o) :
                /\ o[k].ID = i[k].ID
                /\ o[k].Location.nil = i[k].Location.nil
                /\ o[k].Location.F = i[k].Location.F
                /\ Len(o[k].Location.X) = Len(i[k].Location.X)

\* In both directions two different tasks went through in their order, the
\* first with its coordinates altered, the second as it was.
C18_Witness ==
    \A r \in Relays :
        LET i == ch[In(r)].sent
            o == ch[Out(r)].sent
        IN /\ Len(o) = 2
           /\ o[1] # i[1]
           /\ o[2] = i[2]
           /\ ~i[2].Location.nil
           /\ i[1].Location # i[2].Location

\* The location loc is the location orig with every coordinate moved into its bound.
Inside(loc, orig) ==
    IF orig.nil THEN loc = orig
    ELSE /\ ~loc.nil
         /\ loc.F = orig.F
         /\ DOMAIN loc.X = DOMAIN orig.X
         /\ \A c \in 1..Len(Bounds) :
              /\ loc.X[c] >= GetMin(Bounds[c])
              /\ loc.X[c] <= GetMax(Bounds[c])
              /\ orig.X[c] > GetMax(Bounds[c]) => loc.X[c] = GetMax(Bounds[c])
              /\ orig.X[c] < GetMin(Bounds[c]) => loc.X[c] = GetMin(Bounds[c])
              /\ (orig.X[c] >= GetMin(Bounds[c]) /\ orig.X[c] <= GetMax(Bounds[c]))
                   => loc.X[c] = orig.X[c]

\* C19: every task location that passes through BoundsMethod (the initial tasks
\* before the wrapped method starts, every request sent out, every result passed
\* back) has each coordinate i inside [min_i, max_i] afterwards: a coordinate
\* above max becomes max, one below min becomes min, one inside is unchanged,
\* and a task with a nil Location is forwarded untouched.
C19_Constrained ==
    /\ \A r \in Relays : \A k \in 1..Len(ch[Out(r)].sent) :
          Inside(ch[Out(r)].sent[k].Location, ch[In(r)].sent[k].Location)
    /\ \A k \in DOMAIN run.tasks : Inside(run.tasks[k].Location, run.passed[k].Location)

\* An initial task came in above one bound and below the other, a request went
\* out lifted to the lower bounds, and a result without Location was passed back.
C19_Witness ==
    /\ run.started
    /\ Len(run.tasks) >= 1
    /\ run.passed[1].Location = Location(<<2, 1>>)
    /\ run.tasks[1].Location = Location(<<1, 2>>)
    /\ Len(ch["operation"].sent) >= 1
    /\ ch["op"].sent[1].Location = Location(<<0 - 1, 3>>)
    /\ ch["operation"].sent[1].Location = Location(<<0, 2>>)
    /\ Len(ch["res"].sent) >= 1
    /\ ch["res"].sent[1].Location = NoLocation

\* C20: UCB.Estimate returns mean - Kappa*sd when minimize is true and
\* mean + Kappa*sd when minimize is false, where (mean, sd) is the GP posterior
\* at x, and returns (0, err) when the GP reports an error; the function the
\* controller hands to the inner optimizer is that value unchanged when
\* minimizing and its negation when maximizing.
C20_UCB ==
    acq.called =>
       /\ acq.est.err = NoErr =>
            /\ acq.ucb.err = NoErr
            /\ acq.minimize => acq.ucb.v = acq.est.mean - acq.Kappa * acq.est.sd
            /\ ~acq.minimize => acq.ucb.v = acq.est.mean + acq.Kappa * acq.est.sd
       /\ acq.est.err # NoErr => (acq.ucb.v = 0 /\ acq.ucb.err = acq.est.err)
       /\ acq.minimize => acq.f = acq.ucb.v
       /\ ~acq.minimize => acq.f = 0 - acq.ucb.v

\* When minimizing, a lower confidence bound below the mean is handed on as it is.
C20_Witness ==
    /\ acq.called
    /\ acq.minimize
    /\ acq.est.err = NoErr
    /\ acq.Kappa = 2
    /\ acq.est.sd = 1
    /\ acq.est.mean = 1
    /\ acq.ucb.v = 0 - 1
    /\ acq.f = 0 - 1

\* C21: with zero noise and n >= 1 distinct training points (n = 1 included),
\* an Estimate at a training input x_i that answers from the fit of the current
\* observations returns the mean y_i and the standard deviation 0.
C21_ExactAtTrainingPoints ==
    [][((\E x \in Vectors : GPEstimate(x))
          /\ gret'.status = "ok"
          /\ Current(gret'.used, inputs', outputs')
          /\ Distinct(inputs))
        => \A i \in 1..Len(inputs) :
              inputs[i] = gret'.x
                 => gret'.value = [mean |-> Num(outputs[i]), sd |-> Num(0)]]_vars

\* C22: the Matern covariance satisfies cov(x, x) = 1 for every x and
\* cov(a, b) = cov(b, a) for every pair of equal-length vectors, and its value
\* depends on a and b only through their Euclidean distance.
C22_Kernel ==
    kern.status = "ok" =>
       /\ kern.a = kern.b => kern.v = Scale
       /\ kern.v = Cov(kern.b, kern.a)
       /\ \A c, e \in CovVectors :
             (Len(c) = Len(e) /\ Distance(c, e) = Distance(kern.a, kern.b))
                => Cov(c, e) = kern.v

\* At distance 1 the kernel is 0.8286 (the second case of TestMaternCov).
C22_Witness ==
    /\ kern.status = "ok"
    /\ kern.a = <<0, 1>>
    /\ kern.b = <<0, 2>>
    /\ kern.v \in 826..831
    /\ Cov(<<1>>, <<0>>) = kern.v

\* A caller is in the inner optimization of a model-driven round.
Optimizing(c) == pc[c] \in {"global", "local"}

\* C23: the controller mutex is not held while the user objective is being
\* evaluated nor while Next performs its inner global/local acquisition
\* optimization, so that a concurrent Log, Stop, Running, Rounds or
\* ExplorationErr call can acquire it meanwhile.
C23_MutexFreeDuringWork ==
    \A c \in Callers : (pc[c] = "eval" \/ Optimizing(c)) => mu = Free

\* C24: every read or write of the GP, the parameter list, the counters, the
\* minimize flag, the running flag and explorationErr by a controller
\* operation, Optimize's final result extraction included, is made by a step
\* that acquires the mutex (or already holds it).
C24_AccessUnderMutex ==
    [][\A d \in Drivers : OptimizeExtract(d) => mu \in {Free, d}]_vars

\* C25: if the acquisition function or the GP gradient reports an error in any
\* evaluation of a model-driven round, then when that Next call returns
\* ExplorationErr() is that error, Next reports no next point and round is not
\* advanced.
C25_ErrorPromoted ==
    [][\A c \in Callers :
        (Optimizing(c) /\ ~Optimizing(c)' /\ (nx.fErr # NoErr \/ nx'.fErr # NoErr))
        => /\ explorationErr' # NoErr
           /\ explorationErr' \in {nx.fErr, nx'.fErr}
           /\ nret'[c] = NoPoint
           /\ round' = round]_vars

\* The errors isFatalErr is applied to: those of optimize.Local, also wrapped.
WrappedErrs == LocalErrs \cup {Wrap(e, "wrapped") : e \in LocalErrs}

\* C26: isFatalErr is false exactly for nil and for errors whose root cause is
\* optimize.ErrLinesearcherFailure, optimize.ErrNoProgress or an
\* optimize.ErrFunc, and true for every other error; a model-driven round in
\* which every local optimization returned only such errors and the
\* acquisition reported none leaves explorationErr unset, returns a next point
\* flagged sequential and advances round by 1.
C26_NonFatalIgnored ==
    /\ [](\A e \in WrappedErrs :
            isFatalErr(e) <=>
               (e # NoErr /\ Cause(e) \notin {ErrLinesearcherFailure, ErrNoProgress, ErrFunc}))
    /\ [][\A c \in Callers :
            (NextModelEnd(c) /\ nx.fatal = NoErr /\ nx.fErr = NoErr)
            => /\ explorationErr' = NoErr
               /\ ~nret'[c].nil
               /\ ~nret'[c].parallel
               /\ nret'[c].err = NoErr
               /\ round' = round + 1]_vars

\* All local runs of a round have returned, the last failing one reported an
\* optimize.ErrFunc, and no error is stored.
C26_Witness ==
    /\ pc[Single] = "local"
    /\ nx.i > GradPoints
    /\ nx.ignored = ErrFunc
    /\ nx.fatal = NoErr
    /\ nx.fErr = NoErr
    /\ explorationErr = NoErr

\* C27: between two consecutive Add calls, however many Estimate and Gradient
\* calls are made, compute runs at most once: a query refits if and only if
\* dirty is true on entry, it leaves dirty false, and a query made while dirty
\* is false changes none of n, alpha, the Cholesky factor, mean and stddev.
C27_RefitOncePerBatch ==
    [][Answers =>
         /\ gret'.refit <=> dirty
         /\ ~dirty'
         /\ ~dirty => UNCHANGED fit
         /\ (dirty /\ gret'.status = "ok")
               => (n' = Len(inputs) /\ alpha' = SolveVecTo(Factorize(inputs), outputs))]_vars

\* A query answered from the fit an earlier query made of the two observations.
C27_Witness ==
    /\ gret.status = "ok"
    /\ ~gret.refit
    /\ ~dirty
    /\ Len(inputs) = 2
    /\ Current(gret.used, inputs, outputs)

\* A step in which a Log call with the point x completes.
Logs(x) ==
    \/ \E t \in BagToSet(tasks) : t.x = x /\ TaskRun(t)
    \/ \E d \in Drivers : nret[d].x = x /\ OptimizeEvalLog(d)
    \/ nret[Ext].x = x /\ ExtLog

\* C28: each completed Log appends exactly one (x, y) pair at the end, with x
\* ordered by the parameter list, and sets dirty; earlier observations and
\* their order never change; inputs and outputs have equal length; and in any
\* interleaving of parallel Log calls every point handed out is either logged
\* exactly once or still to be logged.
C28_AppendOnly ==
    /\ [](Len(inputs) = Len(outputs))
    /\ [](issued = Len(outputs) + BagCardinality(tasks)
                     + (IF nret[Single].nil THEN 0 ELSE 1))
    /\ [][(inputs' # inputs \/ outputs' # outputs) =>
             \E x \in sampleParamsMap(params), y \in objective :
                /\ Logs(x)
                /\ inputs' = Append(inputs, [i \in 1..Len(params) |-> x[params[i]]])
                /\ outputs' = Append(outputs, y)
                /\ dirty']_vars

\* Two parallel Log calls have completed, with different points and values.
C28_Witness ==
    /\ randomRounds = 3
    /\ issued = 2
    /\ tasks = EmptyBag
    /\ inputs = <<<<0, 2>>, <<1, 2>>>>
    /\ outputs = <<1, 0>>
    /\ dirty

\* A step in which a Next call of c returns a point.
ReturnsPoint(c) == NextCall(c) /\ pc'[c] = AfterNext(c) /\ ~nret'[c].nil

\* C29: the round counter starts at 0, is changed only by Next and only by +1
\* in exactly those Next calls that return a non-nil point, and satisfies
\* 0 <= round <= max(rounds, 0) in every reachable state; Log, Stop, Running,
\* Rounds, ExplorationErr and GP leave it unchanged.
C29_RoundCounter ==
    /\ round = 0
    /\ [](0 <= round /\ round <= (IF rounds > 0 THEN rounds ELSE 0))
    /\ [][round' # round => (round' = round + 1 /\ \E c \in Callers : ReturnsPoint(c))]_vars
    /\ [][(\E c \in Callers : ReturnsPoint(c)) => round' = round + 1]_vars

\* The budget is used up by a warm-up round and a model-driven round while a
\* logged observation, a stop and a finished Optimize left the counter alone.
C29_Witness ==
    /\ rounds = 2
    /\ randomRounds = 1
    /\ round = 2
    /\ issued = 2
    /\ Len(outputs) = 2
    /\ pc[Single] = "done"
    /\ ~running

\* C30: RawData returns a deep copy of the observations and leaves the GP
\* state (dirty included) unchanged, and no later modification of the returned
\* input vectors or output slice changes the GP's observation set or its
\* fitted state, from which Estimate, Minimum, Maximum, Dims and RawData answer.
C30_DeepCopy ==
    [][/\ RawDataCall =>
            (raw'.inputs = inputs /\ raw'.outputs = outputs /\ UNCHANGED gpvars)
       /\ (\E slice \in {"inputs", "outputs"}, i \in 1..MaxObs, j \in 1..2, v \in 0..MaxY :
              Write(slice, i, j, v))
            => (raw' # raw /\ UNCHANGED gpvars)]_vars

\* The caller has overwritten the returned input and output; the GP still holds
\* the observation (<<0>>, 0) and has since been given another.
C30_Witness ==
    /\ raw.called
    /\ raw.writes = 2
    /\ raw.inputs = <<<<1>>>>
    /\ raw.outputs = <<1>>
    /\ inputs = <<<<0>>, <<1>>>>
    /\ outputs = <<0, 0>>

\* A step in which driver d begins an objective evaluation: inline in a
\* sequential round, or by spawning the goroutine of a parallel round.
BeginsEvaluation(d) ==
    \/ OptimizeEvalLog(d)
    \/ OptimizeDispatch(d) /\ BagCardinality(tasks') > BagCardinality(tasks)

\* C31: once a Stop call has completed during an Optimize run (and no new
\* Optimize is started), the driver begins at most one further Next call and at
\* most one further objective evaluation before it returns: it begins no Next
\* call but the one it stood at, an evaluation it begins is followed by the
\* loop check, and the loop check returns the stop error.  Evaluations in
\* flight are not interrupted: a task ends only by logging its result, also
\* after Optimize has returned.
C31_BoundedCancellation ==
    /\ [][\A d \in Drivers : stopped[d] =>
            /\ pc[d] # "next" => pc'[d] # "next"
            /\ BeginsEvaluation(d) => pc'[d] = "check"
            /\ (pc[d] = "check" /\ pc'[d] # "check")
                  => (pc'[d] = "done" /\ res'[d] = NoResult(ErrStopSignal))]_vars
    /\ [][BagCardinality(tasks') < BagCardinality(tasks)
            => (\E t \in BagToSet(tasks) : TaskRun(t)) /\ Len(outputs') = Len(outputs) + 1]_vars

\* The stopped driver has returned the stop error while an evaluation is still
\* in flight and another has logged its result.
C31_Witness ==
    /\ stopped[Single]
    /\ pc[Single] = "done"
    /\ res[Single] = NoResult(ErrStopSignal)
    /\ BagCardinality(tasks) = 1
    /\ Len(outputs) = 1
    /\ round = 2
    /\ ~running

\* C32: Optimize always returns to its caller with a result or an error value,
\* never failing at run time, also when no observation has been logged by the
\* time it extracts the final result: the extraction step ends in a return.
C32_OptimizeAlwaysReturns ==
    [][\A d \in Drivers :
        (pc[d] = "extract" /\ pc'[d] # "extract")
        => /\ pc'[d] = "done"
           /\ res'[d].nil => res'[d].err # NoErr]_vars

\* C33: BoundsMethod.Run shuts down cleanly: when the wrapped method closes its
\* operation channel, every task it sent before closing is forwarded and then
\* the outer operation channel is closed; when the outer result channel is
\* closed, every result received before is forwarded and then the wrapped
\* method's result channel is closed; neither relay goroutine closes its output
\* channel while a task is still pending, and nothing is sent on a closed one.
C33_CleanShutdown ==
    /\ [][\A r \in Relays :
            /\ (~ch[Out(r)].closed /\ ch'[Out(r)].closed)
                 => /\ ch[In(r)].closed
                    /\ held[r] = NoTask
                    /\ Len(ch[Out(r)].sent) = Len(ch[In(r)].sent)
                    /\ ch'[Out(r)].sent = ch[Out(r)].sent
            /\ ch[Out(r)].closed
                 => /\ ch'[Out(r)] = ch[Out(r)]
                    /\ ch'[In(r)] = ch[In(r)]]_vars
    /\ \A r \in Relays :
          ch[In(r)].closed
            ~> (ch[Out(r)].closed /\ held[r] = NoTask
                /\ Len(ch[Out(r)].sent) = Len(ch[In(r)].sent))

\* The wrapped method closed op while the request relay still holds its second
\* task, and the response relay has passed on two results and closed res.
C33_Witness ==
    /\ ch["op"].closed
    /\ held["request"] # NoTask
    /\ Len(ch["op"].sent) = 2
    /\ ~ch["operation"].closed
    /\ ch["result"].closed
    /\ ch["res"].closed
    /\ Len(ch["res"].sent) = 2

====
